---- MODULE Spec2Model ----
(***************************************************************************)
(* Model of the scull FIFO character driver (src/driver/scull.c): the      *)
(* circular buffer cursors start/end/orig, the three kernel semaphores     *)
(* queue_empty, queue_full and lock, and the two file operations           *)
(* scull_read and scull_write, executed by concurrent contexts.            *)
(***************************************************************************)
EXTENDS Integers, Sequences, FiniteSets, TLC

(* ------------------------------ parameters ----------------------------- *)
\* module parameters (scull.c:42-43)
scull_fifo_size == 3
scull_fifo_elemsz == 2
\* sizeof(ssize_t) in the kmalloc size (scull.c:284)
SizeofSsize == 8
\* errno value returned as -EFAULT (scull.c:106, 157)
EFAULT == 14
\* errno value of an interrupted wait, what down_interruptible returns as
\* -EINTR; the driver never passes it on (scull.c:84, 90, 93)
EINTR == 4
\* a static pointer that is never assigned is a null pointer (scull.c:56)
NULL == 0

\* bounds of the model
NumProcs == 2
MaxCalls == 3
MaxCount == 3
MaxByte == 1
\* signals delivered to sleeping contexts, and failing user copies
MaxIntr == 1
MaxFault == 1
\* the two kinds of address kmalloc can return, as a signed ptrdiff_t:
\* a kernel address in the upper half (negative) or in the lower half
HighAddr == -64
LowAddr == 64

Procs == 1..NumProcs
\* values an uninitialised byte can have: 0, which no caller writes, and
\* values that callers do write
Bytes == 0..MaxByte
Counts == 1..MaxCount
FifoAddrs == {HighAddr, LowAddr}
Min(a, b) == IF a < b THEN a ELSE b

VARIABLES
  fifo_array,   \* address returned by kmalloc in scull_init_module
  start, end, orig,   \* the cursors and the wrap base
  mem,          \* kernel memory written so far: address -> byte
  sema,         \* the semaphores lock, queue_empty, queue_full
  pc,           \* position of each context inside scull_read / scull_write
  count,        \* the count variable of each context's call
  req,          \* the count the caller passed
  buf,          \* the user buffer of each context's call
  temp,         \* the loop counter of the cursor-advance loop
  ret,          \* the value returned by each context's last call
  result,       \* how the last call ended: "none", "read_ok", "write_ok",
                \* "read_fault" or "write_fault"
  holds,        \* the context's last down on lock returned 0, no up since
  intr,         \* a wait of the current/last call was interrupted
  moved,        \* net displacement the call applied to its cursor
  wokeDue,      \* an opposite transfer completed while the context waited
  written,      \* bytes copied in by successful copy_from_user, in order
  readOut,      \* bytes copied out by successful copy_to_user, in order
  calls,        \* number of calls started
  nintr,        \* number of signals delivered
  nfault,       \* number of user copies that failed
  mod,          \* the module: "unloaded", "live", "failed" or "removed"
  region,       \* the char device region is registered
  cdev,         \* the char device is added
  heap          \* the FIFO storage: "none", "allocated" or "freed"

vars == <<fifo_array, start, end, orig, mem, sema, pc, count, req, buf, temp,
          ret, result, holds, intr, moved, wokeDue, written, readOut, calls,
          nintr, nfault, mod, region, cdev, heap>>

(* ------------------------------ semaphores ----------------------------- *)
SemNames == {"lock", "queue_empty", "queue_full"}

\* a semaphore initialised to 0 whatever the value asked for
sema_init_zero(val) == [count |-> 0, wait_list |-> <<>>]

\* sema_init(&sem, val)
sema_init(val) == [count |-> val, wait_list |-> <<>>]

\* up(): wake the first waiter if there is one, else increment the count
up(s) ==
  IF s.wait_list = <<>> THEN [s EXCEPT !.count = @ + 1]
  ELSE [s EXCEPT !.wait_list = Tail(@)]

\* the context whose down returns 0 because of this up
Woken(s) == IF s.wait_list = <<>> THEN {} ELSE {Head(s.wait_list)}

\* `if (sem.count < 0) up(&sem);' : count is unsigned and is never negative
CondUp(s) == IF s.count < 0 THEN up(s) ELSE s
CondWoken(s) == IF s.count < 0 THEN Woken(s) ELSE {}

(* ------------------------------ positions ------------------------------ *)
DownLabels == {"r_lock", "r_qe", "r_relock", "w_lock", "w_qf", "w_relock"}
WaitLabels == {"r_lock_w", "r_qe_w", "r_relock_w",
               "w_lock_w", "w_qf_w", "w_relock_w"}

\* the semaphore a down_interruptible call is made on
SemOf(l) ==
  CASE l \in {"r_lock", "r_relock", "w_lock", "w_relock",
              "r_lock_w", "r_relock_w", "w_lock_w", "w_relock_w"} -> "lock"
    [] l \in {"r_qe", "r_qe_w"} -> "queue_empty"
    [] l \in {"w_qf", "w_qf_w"} -> "queue_full"

\* where a down_interruptible call sleeps
WaitOf(l) ==
  CASE l = "r_lock" -> "r_lock_w" [] l = "r_qe" -> "r_qe_w"
    [] l = "r_relock" -> "r_relock_w" [] l = "w_lock" -> "w_lock_w"
    [] l = "w_qf" -> "w_qf_w" [] l = "w_relock" -> "w_relock_w"

\* the statement after a down_interruptible call; the code continues there
\* whatever the call returned
AfterDown(l) ==
  CASE l \in {"r_lock", "r_lock_w"} -> "r_check"
    [] l \in {"r_qe", "r_qe_w"} -> "r_relock"
    [] l \in {"r_relock", "r_relock_w"} -> "r_copy"
    [] l \in {"w_lock", "w_lock_w"} -> "w_check"
    [] l \in {"w_qf", "w_qf_w"} -> "w_relock"
    [] l \in {"w_relock", "w_relock_w"} -> "w_copy"

\* pc after context p moves to l and the contexts in ws are woken
PcAfter(p, l, ws) ==
  [q \in Procs |-> IF q = p THEN l
                   ELSE IF q \in ws THEN AfterDown(pc[q]) ELSE pc[q]]

\* holds after context p releases lock and the contexts in ws are woken on it
HoldsAfterUp(p, ws) ==
  [q \in Procs |-> IF q = p THEN FALSE
                   ELSE IF q \in ws THEN TRUE ELSE holds[q]]

(* ------------------------------- memory -------------------------------- *)
\* the kmalloc'ed region (scull.c:284)
AllocSize == scull_fifo_size * (SizeofSsize + scull_fifo_elemsz)
Alloc == fifo_array .. (fifo_array + AllocSize - 1)

\* what copy_to_user can read from n bytes at address a: a byte written
\* before is read back, any other byte is uninitialised
ReadBytes(a, n) ==
  {s \in [1..n -> Bytes] :
     \A i \in 1..n : (a + i - 1) \in DOMAIN mem => s[i] = mem[a + i - 1]}

\* memory after the bytes of s are stored from address a on
Store(a, s) ==
  [x \in DOMAIN mem \cup (a .. (a + Len(s) - 1)) |->
     IF x \in a .. (a + Len(s) - 1) THEN s[x - a + 1] ELSE mem[x]]

\* one iteration of the cursor-advance loop (scull.c:111-115, 162-166)
Advance(c) == IF c - orig >= scull_fifo_size THEN orig ELSE c + 1

(* -------------------------------- Init --------------------------------- *)
\* state after a successful scull_init_module (scull.c:284-293)
Init ==
  /\ fifo_array \in FifoAddrs
  /\ start = fifo_array
  /\ end = fifo_array
  /\ orig = NULL
  /\ mem = [a \in {} |-> 0]
  /\ sema = [n \in SemNames |-> IF n = "lock" THEN sema_init(1) ELSE sema_init(0)]
  /\ pc = [p \in Procs |-> "idle"]
  /\ count = [p \in Procs |-> 0]
  /\ req = [p \in Procs |-> 0]
  /\ buf = [p \in Procs |-> <<>>]
  /\ temp = [p \in Procs |-> 0]
  /\ ret = [p \in Procs |-> 0]
  /\ result = [p \in Procs |-> "none"]
  /\ holds = [p \in Procs |-> FALSE]
  /\ intr = [p \in Procs |-> FALSE]
  /\ moved = [p \in Procs |-> 0]
  /\ wokeDue = [p \in Procs |-> FALSE]
  /\ written = <<>>
  /\ readOut = <<>>
  /\ calls = 0
  /\ nintr = 0
  /\ nfault = 0
  /\ mod = "live"
  /\ region = TRUE
  /\ cdev = TRUE
  /\ heap = "allocated"

(* ------------------------------- actions ------------------------------- *)
\* a context enters scull_read(filp, buf, n, f_pos)
CallRead(p) ==
  /\ mod = "live"
  /\ pc[p] = "idle"
  /\ calls < MaxCalls
  /\ \E n \in Counts :
       /\ count' = [count EXCEPT ![p] = n]
       /\ req' = [req EXCEPT ![p] = n]
  /\ buf' = [buf EXCEPT ![p] = <<>>]
  /\ pc' = [pc EXCEPT ![p] = "r_lock"]
  /\ temp' = [temp EXCEPT ![p] = 0]
  /\ result' = [result EXCEPT ![p] = "none"]
  /\ intr' = [intr EXCEPT ![p] = FALSE]
  /\ moved' = [moved EXCEPT ![p] = 0]
  /\ wokeDue' = [wokeDue EXCEPT ![p] = FALSE]
  /\ calls' = calls + 1
  /\ UNCHANGED <<fifo_array, start, end, orig, mem, sema, ret, holds,
                 written, readOut, nintr, nfault,
                 mod, region, cdev, heap>>

\* the n bytes a caller passes to write: the driver never looks at the
\* values, so every byte offered gets a value of its own (never 0)
UserData(n) == [i \in 1..n |-> calls * MaxCount + i]

\* a context enters scull_write(filp, buf, n, f_pos); count is cut to
\* scull_fifo_elemsz (scull.c:131-133)
CallWrite(p) ==
  /\ mod = "live"
  /\ pc[p] = "idle"
  /\ calls < MaxCalls
  /\ \E n \in Counts :
       /\ count' = [count EXCEPT ![p] =
                      IF n > scull_fifo_elemsz THEN scull_fifo_elemsz ELSE n]
       /\ buf' = [buf EXCEPT ![p] = UserData(n)]
       /\ req' = [req EXCEPT ![p] = n]
  /\ pc' = [pc EXCEPT ![p] = "w_lock"]
  /\ temp' = [temp EXCEPT ![p] = 0]
  /\ result' = [result EXCEPT ![p] = "none"]
  /\ intr' = [intr EXCEPT ![p] = FALSE]
  /\ moved' = [moved EXCEPT ![p] = 0]
  /\ wokeDue' = [wokeDue EXCEPT ![p] = FALSE]
  /\ calls' = calls + 1
  /\ UNCHANGED <<fifo_array, start, end, orig, mem, sema, ret, holds,
                 written, readOut, nintr, nfault,
                 mod, region, cdev, heap>>

\* down_interruptible(&sem): take the semaphore if its count is positive,
\* else join its wait list and sleep
Down(p) ==
  /\ pc[p] \in DownLabels
  /\ LET n == SemOf(pc[p]) IN
       IF sema[n].count > 0
       THEN /\ sema' = [sema EXCEPT ![n].count = @ - 1]
            /\ pc' = [pc EXCEPT ![p] = AfterDown(pc[p])]
            /\ holds' = IF n = "lock" THEN [holds EXCEPT ![p] = TRUE] ELSE holds
       ELSE /\ sema' = [sema EXCEPT ![n].wait_list = Append(@, p)]
            /\ pc' = [pc EXCEPT ![p] = WaitOf(pc[p])]
            /\ holds' = holds
  /\ UNCHANGED <<fifo_array, start, end, orig, mem, count, req, buf, temp, ret,
                 result, intr, moved, wokeDue, written, readOut, calls, nintr, nfault,
                 mod, region, cdev, heap>>

\* a signal is delivered to a context sleeping in down_interruptible: the
\* call returns -EINTR without the semaphore; the code only logs that and
\* goes on with the next statement (scull.c:84-86, 90-95, 134-136, 141-146)
Interrupt(p) ==
  /\ pc[p] \in WaitLabels
  /\ nintr < MaxIntr
  /\ nintr' = nintr + 1
  /\ LET n == SemOf(pc[p]) IN
       sema' = [sema EXCEPT ![n].wait_list = SelectSeq(@, LAMBDA q : q # p)]
  /\ pc' = [pc EXCEPT ![p] = AfterDown(pc[p])]
  /\ intr' = [intr EXCEPT ![p] = TRUE]
  /\ UNCHANGED <<fifo_array, start, end, orig, mem, count, req, buf, temp, ret,
                 result, holds, moved, wokeDue, written, readOut, calls, nfault,
                 mod, region, cdev, heap>>

\* if(start == end) (scull.c:87)
ReadCheck(p) ==
  /\ pc[p] = "r_check"
  /\ pc' = [pc EXCEPT ![p] = IF start = end THEN "r_unlock" ELSE "r_copy"]
  /\ UNCHANGED <<fifo_array, start, end, orig, mem, sema, count, req, buf, temp,
                 ret, result, holds, intr, moved, wokeDue, written, readOut,
                 calls, nintr, nfault,
                 mod, region, cdev, heap>>

\* the full test of scull_write (scull.c:137)
IsFull == (end - start = 1) \/ (end - start = scull_fifo_size)

\* if((end-start == 1) || (end-start == scull_fifo_size)) (scull.c:137)
WriteCheck(p) ==
  /\ pc[p] = "w_check"
  /\ pc' = [pc EXCEPT ![p] = IF IsFull THEN "w_unlock" ELSE "w_copy"]
  /\ UNCHANGED <<fifo_array, start, end, orig, mem, sema, count, req, buf, temp,
                 ret, result, holds, intr, moved, wokeDue, written, readOut,
                 calls, nintr, nfault,
                 mod, region, cdev, heap>>

\* going to sleep on queue_empty / queue_full without the up(&lock)
UnlockKeeping(p) ==
  /\ pc[p] \in {"r_unlock", "w_unlock"}
  /\ pc' = [pc EXCEPT ![p] = IF pc[p] = "r_unlock" THEN "r_qe" ELSE "w_qf"]
  /\ UNCHANGED <<sema, holds, fifo_array, start, end, orig, mem, count, req, buf, temp, ret,
                 result, intr, moved, wokeDue, written, readOut, calls, nintr, nfault,
                 mod, region, cdev, heap>>

\* up(&lock) before sleeping on queue_empty / queue_full (scull.c:89, 139)
Unlock(p) ==
  /\ pc[p] \in {"r_unlock", "w_unlock"}
  /\ sema' = [sema EXCEPT !["lock"] = up(@)]
  /\ pc' = PcAfter(p, IF pc[p] = "r_unlock" THEN "r_qe" ELSE "w_qf",
                   Woken(sema["lock"]))
  /\ holds' = HoldsAfterUp(p, Woken(sema["lock"]))
  /\ UNCHANGED <<fifo_array, start, end, orig, mem, count, req, buf, temp, ret,
                 result, intr, moved, wokeDue, written, readOut, calls, nintr, nfault,
                 mod, region, cdev, heap>>

\* ret = copy_to_user(buf, start, count) with ret == 0 (scull.c:99)
ReadCopy(p) ==
  /\ pc[p] = "r_copy"
  /\ \E s \in ReadBytes(start, count[p]) :
       /\ buf' = [buf EXCEPT ![p] = s]
       /\ readOut' = readOut \o s
  /\ temp' = [temp EXCEPT ![p] = 0]
  /\ pc' = [pc EXCEPT ![p] = "r_adv"]
  /\ UNCHANGED <<fifo_array, start, end, orig, mem, sema, count, req, ret, result,
                 holds, intr, moved, wokeDue, written, calls, nintr, nfault,
                 mod, region, cdev, heap>>

\* ret = copy_to_user(buf, start, count) with ret != 0 (scull.c:99-100)
ReadCopyFault(p) ==
  /\ pc[p] = "r_copy"
  /\ nfault < MaxFault
  /\ nfault' = nfault + 1
  /\ pc' = [pc EXCEPT ![p] = "r_fault"]
  /\ UNCHANGED <<fifo_array, start, end, orig, mem, sema, count, req, buf, temp,
                 ret, result, holds, intr, moved, wokeDue, written, readOut,
                 calls, nintr,
                 mod, region, cdev, heap>>

\* ret = copy_from_user(end, buf, count) with ret == 0 (scull.c:150)
WriteCopy(p) ==
  /\ pc[p] = "w_copy"
  /\ mem' = Store(end, SubSeq(buf[p], 1, count[p]))
  /\ written' = written \o SubSeq(buf[p], 1, count[p])
  /\ temp' = [temp EXCEPT ![p] = 0]
  /\ pc' = [pc EXCEPT ![p] = "w_adv"]
  /\ UNCHANGED <<fifo_array, start, end, orig, sema, count, req, buf, ret, result,
                 holds, intr, moved, wokeDue, readOut, calls, nintr, nfault,
                 mod, region, cdev, heap>>

\* what a failed copy_from_user leaves at the destination: the k bytes it
\* could copy, and zeroes in the rest
Partial(d, n, k) == [i \in 1..n |-> IF i <= k THEN d[i] ELSE 0]

\* a failed copy that moves the write cursor over the bytes it did copy
WriteCopyFaultAdvancing(p) ==
  /\ pc[p] = "w_copy"
  /\ nfault < MaxFault
  /\ nfault' = nfault + 1
  /\ \E k \in 0..(count[p] - 1) :
       /\ mem' = Store(end, Partial(buf[p], count[p], k))
       /\ end' = end + k
  /\ pc' = [pc EXCEPT ![p] = "w_fault"]
  /\ UNCHANGED <<fifo_array, start, orig, sema, count, req, buf, temp, ret,
                 result, holds, intr, moved, wokeDue, written, readOut, calls,
                 nintr,
                 mod, region, cdev, heap>>

\* ret = copy_from_user(end, buf, count) with ret != 0 (scull.c:150-151)
WriteCopyFault(p) ==
  /\ pc[p] = "w_copy"
  /\ nfault < MaxFault
  /\ nfault' = nfault + 1
  /\ \E k \in 0..(count[p] - 1) :
       mem' = Store(end, Partial(buf[p], count[p], k))
  /\ pc' = [pc EXCEPT ![p] = "w_fault"]
  /\ UNCHANGED <<fifo_array, start, end, orig, sema, count, req, buf, temp, ret,
                 result, holds, intr, moved, wokeDue, written, readOut, calls, nintr,
                 mod, region, cdev, heap>>

\* the error exit of both operations: up(&lock), the conditional up of the
\* other side's semaphore, return -EFAULT (scull.c:101-106, 153-157)
FaultReturn(p) ==
  /\ pc[p] \in {"r_fault", "w_fault"}
  /\ LET other == IF pc[p] = "r_fault" THEN "queue_full" ELSE "queue_empty"
         ws == Woken(sema["lock"]) \cup CondWoken(sema[other])
     IN /\ sema' = [sema EXCEPT !["lock"] = up(@), ![other] = CondUp(@)]
        /\ pc' = PcAfter(p, "idle", ws)
        /\ holds' = HoldsAfterUp(p, Woken(sema["lock"]))
  /\ ret' = [ret EXCEPT ![p] = -EFAULT]
  /\ result' = [result EXCEPT ![p] =
                   IF pc[p] = "r_fault" THEN "read_fault" ELSE "write_fault"]
  /\ count' = [count EXCEPT ![p] = 0]
  /\ buf' = [buf EXCEPT ![p] = <<>>]
  /\ temp' = [temp EXCEPT ![p] = 0]
  /\ UNCHANGED <<fifo_array, start, end, orig, mem, req, intr,
                 moved, wokeDue, written, readOut, calls, nintr, nfault,
                 mod, region, cdev, heap>>

\* one iteration of `while(temp < count)' in scull_read (scull.c:110-117)
ReadAdvance(p) ==
  /\ pc[p] = "r_adv"
  /\ temp[p] < count[p]
  /\ start' = Advance(start)
  /\ temp' = [temp EXCEPT ![p] = @ + 1]
  /\ moved' = [moved EXCEPT ![p] = @ + (Advance(start) - start)]
  /\ UNCHANGED <<fifo_array, end, orig, mem, sema, pc, count, req, buf, ret,
                 result, holds, intr, wokeDue, written, readOut, calls, nintr, nfault,
                 mod, region, cdev, heap>>

\* one iteration of `while(temp < count)' in scull_write (scull.c:161-168)
WriteAdvance(p) ==
  /\ pc[p] = "w_adv"
  /\ temp[p] < count[p]
  /\ end' = Advance(end)
  /\ temp' = [temp EXCEPT ![p] = @ + 1]
  /\ moved' = [moved EXCEPT ![p] = @ + (Advance(end) - end)]
  /\ UNCHANGED <<fifo_array, start, orig, mem, sema, pc, count, req, buf, ret,
                 result, holds, intr, wokeDue, written, readOut, calls, nintr, nfault,
                 mod, region, cdev, heap>>

\* the contexts asleep at wait label l
Asleep(l) == {q \in Procs : pc[q] = l}

\* the normal exit of scull_read: up(&lock), the conditional up of
\* queue_full, return count (scull.c:118-122)
ReadReturn(p) ==
  /\ pc[p] = "r_adv"
  /\ temp[p] >= count[p]
  /\ LET ws == Woken(sema["lock"]) \cup CondWoken(sema["queue_full"])
     IN /\ sema' = [sema EXCEPT !["lock"] = up(@), !["queue_full"] = CondUp(@)]
        /\ pc' = PcAfter(p, "idle", ws)
        /\ holds' = HoldsAfterUp(p, Woken(sema["lock"]))
  /\ ret' = [ret EXCEPT ![p] = count[p]]
  /\ result' = [result EXCEPT ![p] = "read_ok"]
  /\ wokeDue' = [q \in Procs |-> wokeDue[q] \/ q \in Asleep("w_qf_w")]
  /\ count' = [count EXCEPT ![p] = 0]
  /\ buf' = [buf EXCEPT ![p] = <<>>]
  /\ temp' = [temp EXCEPT ![p] = 0]
  /\ UNCHANGED <<fifo_array, start, end, orig, mem, req, intr,
                 moved, written, readOut, calls, nintr, nfault,
                 mod, region, cdev, heap>>

\* the normal exit of scull_write: up(&lock), the conditional up of
\* queue_empty, return count (scull.c:169-173)
WriteReturn(p) ==
  /\ pc[p] = "w_adv"
  /\ temp[p] >= count[p]
  /\ LET ws == Woken(sema["lock"]) \cup CondWoken(sema["queue_empty"])
     IN /\ sema' = [sema EXCEPT !["lock"] = up(@), !["queue_empty"] = CondUp(@)]
        /\ pc' = PcAfter(p, "idle", ws)
        /\ holds' = HoldsAfterUp(p, Woken(sema["lock"]))
  /\ ret' = [ret EXCEPT ![p] = count[p]]
  /\ result' = [result EXCEPT ![p] = "write_ok"]
  /\ wokeDue' = [q \in Procs |-> wokeDue[q] \/ q \in Asleep("r_qe_w")]
  /\ count' = [count EXCEPT ![p] = 0]
  /\ buf' = [buf EXCEPT ![p] = <<>>]
  /\ temp' = [temp EXCEPT ![p] = 0]
  /\ UNCHANGED <<fifo_array, start, end, orig, mem, req, intr,
                 moved, written, readOut, calls, nintr, nfault,
                 mod, region, cdev, heap>>

(* ------------------------------ lifecycle ------------------------------ *)
\* the call state of every context, untouched by module load and unload
callVars == <<mem, pc, count, req, buf, temp, ret, result, holds, intr, moved,
              wokeDue, written, readOut, calls, nintr, nfault>>

\* the state before the module is loaded: the static pointers are null and
\* the static semaphores are zeroed (scull.c:53-59)
LoadInit ==
  /\ fifo_array = NULL
  /\ start = NULL
  /\ end = NULL
  /\ orig = NULL
  /\ mem = [a \in {} |-> 0]
  /\ sema = [n \in SemNames |-> sema_init(0)]
  /\ pc = [p \in Procs |-> "idle"]
  /\ count = [p \in Procs |-> 0]
  /\ req = [p \in Procs |-> 0]
  /\ buf = [p \in Procs |-> <<>>]
  /\ temp = [p \in Procs |-> 0]
  /\ ret = [p \in Procs |-> 0]
  /\ result = [p \in Procs |-> "none"]
  /\ holds = [p \in Procs |-> FALSE]
  /\ intr = [p \in Procs |-> FALSE]
  /\ moved = [p \in Procs |-> 0]
  /\ wokeDue = [p \in Procs |-> FALSE]
  /\ written = <<>>
  /\ readOut = <<>>
  /\ calls = 0
  /\ nintr = 0
  /\ nfault = 0
  /\ mod = "unloaded"
  /\ region = FALSE
  /\ cdev = FALSE
  /\ heap = "none"

\* kfree(ptr): a null pointer is ignored, the storage pointer releases the
\* storage (scull.c:243)
kfree(h, ptr) ==
  IF ptr = NULL THEN h
  ELSE IF ptr = fifo_array /\ h = "allocated" THEN "freed" ELSE h

\* the body of scull_cleanup_module: kfree(orig), cdev_del,
\* unregister_chrdev_region (scull.c:240-249)
CleanupBody ==
  /\ heap' = kfree(heap, orig)
  /\ cdev' = FALSE
  /\ region' = FALSE

\* scull_init_module, with every outcome of its three acquisitions
\* (scull.c:253-303)
scull_init_module ==
  /\ mod = "unloaded"
  /\ \/ \* the region cannot be registered: return result (scull.c:269-272)
        /\ mod' = "failed"
        /\ UNCHANGED <<fifo_array, start, end, orig, sema, region, cdev, heap>>
     \/ \* cdev_add fails: goto fail, scull_cleanup_module (scull.c:276-281,
        \* 300-302)
        /\ CleanupBody
        /\ mod' = "failed"
        /\ UNCHANGED <<fifo_array, start, end, orig, sema>>
     \/ \* kmalloc returns a null pointer: return -EFAULT (scull.c:284-288)
        /\ region' = TRUE
        /\ cdev' = TRUE
        /\ mod' = "failed"
        /\ UNCHANGED <<fifo_array, start, end, orig, sema, heap>>
     \/ \* success (scull.c:284-298)
        /\ \E a \in FifoAddrs :
             /\ fifo_array' = a
             /\ start' = a
             /\ end' = a
        /\ sema' = [n \in SemNames |->
                      IF n = "lock" THEN sema_init(1) ELSE sema_init(0)]
        /\ region' = TRUE
        /\ cdev' = TRUE
        /\ heap' = "allocated"
        /\ mod' = "live"
        /\ UNCHANGED orig
  /\ UNCHANGED callVars

\* module exit, possible once no context is inside a call (scull.c:238-250)
scull_cleanup_module ==
  /\ mod = "live"
  /\ \A p \in Procs : pc[p] = "idle"
  /\ CleanupBody
  /\ mod' = "removed"
  /\ UNCHANGED <<fifo_array, start, end, orig, sema>>
  /\ UNCHANGED callVars

(* ---------------------------- specifications --------------------------- *)
\* the steps a context takes inside a call when no signal is delivered and
\* no copy faults
Run(p) ==
  \/ Down(p)
  \/ ReadCheck(p)
  \/ WriteCheck(p)
  \/ Unlock(p)
  \/ ReadCopy(p)
  \/ WriteCopy(p)
  \/ ReadAdvance(p)
  \/ WriteAdvance(p)
  \/ ReadReturn(p)
  \/ WriteReturn(p)

Next ==
  \/ \E p \in Procs : CallRead(p)
  \/ \E p \in Procs : CallWrite(p)
  \/ \E p \in Procs : Run(p)
  \/ \E p \in Procs : Interrupt(p)
  \/ \E p \in Procs : ReadCopyFault(p)
  \/ \E p \in Procs : WriteCopyFault(p)
  \/ \E p \in Procs : FaultReturn(p)

Spec == Init /\ [][Next]_vars

\* no signal, no copy fault, and every context that can take a step inside
\* a call eventually takes one
NextFair ==
  \/ \E p \in Procs : CallRead(p)
  \/ \E p \in Procs : CallWrite(p)
  \/ \E p \in Procs : Run(p)

FairSpec == Init /\ [][NextFair]_vars /\ \A p \in Procs : WF_vars(Run(p))

\* the whole life of the module: load, calls without signals or copy
\* faults, unload
NextLife ==
  \/ scull_init_module
  \/ scull_cleanup_module
  \/ \E p \in Procs : CallRead(p)
  \/ \E p \in Procs : CallWrite(p)
  \/ \E p \in Procs : Run(p)

LifeSpec == LoadInit /\ [][NextLife]_vars

\* one producer that only writes and one consumer that only reads
Producer == 1
Consumer == 2

NextPC ==
  \/ CallWrite(Producer)
  \/ CallRead(Consumer)
  \/ \E p \in {Producer, Consumer} : Run(p)

PCSpec ==
  Init /\ [][NextPC]_vars /\ \A p \in {Producer, Consumer} : WF_vars(Run(p))

(* ------------------------------- claims -------------------------------- *)
\* a cursor as an offset from the start of storage
Offset(c) == c - fifo_array

IsPrefix(s, t) == Len(s) <= Len(t) /\ SubSeq(t, 1, Len(s)) = s

Returned(p, r) == pc[p] = "idle" /\ result[p] = r

\* C1: the number of occupied bytes, the distance from the read cursor to
\* the write cursor, never exceeds scull_fifo_size.
C1_CapacityBound == end - start <= scull_fifo_size

\* C2: the bytes returned by successful reads, concatenated, are a prefix of
\* the bytes enqueued by successful writes, concatenated.
C2_FifoOrder == IsPrefix(readOut, written)

\* C3: a reader asleep on queue_empty, after a writer completed a successful
\* write, is eventually woken and returns from a successful read.
C3_ReaderWoken ==
  \A p \in Procs :
    (pc[p] = "r_qe_w" /\ wokeDue[p]) ~> Returned(p, "read_ok")

\* C4: a writer asleep on queue_full, after a reader completed a successful
\* read, is eventually woken and completes its write.
C4_WriterWoken ==
  \A p \in Procs :
    (pc[p] = "w_qf_w" /\ wokeDue[p]) ~> Returned(p, "write_ok")

\* positions from which the next step reads or writes start, end or storage
Critical == {"r_check", "r_copy", "r_adv", "w_check", "w_copy", "w_adv"}

\* C5: at most one context holds lock, and every context about to read or
\* change start, end or the storage holds lock.
C5_MutualExclusion ==
  /\ Cardinality({p \in Procs : holds[p]}) <= 1
  /\ \A p \in Procs :
       (pc[p] \in Critical /\ ~(pc[p] \in {"r_adv", "w_adv"} /\ temp[p] >= count[p]))
         => holds[p]

\* C6: successful reads never return more bytes than were enqueued and not
\* yet read: a read of count bytes with k bytes occupied returns at most k.
C6_NoOverRead == Len(readOut) <= Len(written)

C8_CursorRange ==
  /\ Offset(start) \in 0..(scull_fifo_size - 1)
  /\ Offset(end) \in 0..(scull_fifo_size - 1)

\* the occupied bytes: the storage from the read cursor up to the write
\* cursor (-1 stands for a byte never written)
Occupied ==
  [a \in start..(end - 1) |-> IF a \in DOMAIN mem THEN mem[a] ELSE -1]

\* context p takes a step of the fault path: the failing copy, or the exit
FaultStep(p) ==
  \/ pc[p] \in {"r_copy", "w_copy"} /\ pc'[p] \in {"r_fault", "w_fault"}
  \/ pc[p] \in {"r_fault", "w_fault"} /\ pc'[p] = "idle"

C10_Interruption ==
  \A p \in Procs :
    (pc[p] = "idle" /\ intr[p]) => (ret[p] = -EINTR /\ moved[p] = 0)

\* C11: after scull_cleanup_module the storage is released, and a failed
\* scull_init_module leaves nothing acquired: no region, no char device, no
\* storage.
C11_Teardown ==
  /\ mod = "removed" => heap # "allocated"
  /\ mod = "failed" => (~region /\ ~cdev /\ heap # "allocated")

\* C12: scull_write copies only while it holds lock and the occupied length
\* is neither scull_fifo_size - 1 nor scull_fifo_size.
C12_WriteOnlyWhenNotFull ==
  [][\A p \in Procs :
       (pc[p] = "w_copy" /\ pc'[p] = "w_adv") =>
         /\ holds[p]
         /\ (end - start) \notin {scull_fifo_size - 1, scull_fifo_size}]_vars

\* C13: scull_read copies only in a state where start # end, also after it
\* was woken from queue_empty.
C13_ReadOnlyWhenNotEmpty ==
  [][\A p \in Procs :
       (pc[p] = "r_copy" /\ pc'[p] = "r_adv") => start # end]_vars

\* positions at which a context blocks, or is blocked, on queue_empty or
\* queue_full
Suspended == {"r_qe", "r_qe_w", "w_qf", "w_qf_w"}

\* C14: a context that blocks on queue_empty or on queue_full does not hold
\* lock.
C14_NoLockAcrossSuspension ==
  \A p \in Procs : pc[p] \in Suspended => ~holds[p]

\* a context sleeps on a flow-control semaphore while another holds lock
C14_Witness ==
  \E p, q \in Procs :
    /\ pc[p] \in {"r_qe_w", "w_qf_w"}
    /\ holds[q]

\* C15: a transfer of n bytes moves its cursor from offset p to offset
\* (p + n) mod scull_fifo_size.
C15_ModularAdvance ==
  \A p \in Procs :
    /\ (pc[p] = "w_adv" /\ temp[p] = count[p]) =>
         Offset(end) = (Offset(end - moved[p]) + count[p]) % scull_fifo_size
    /\ (pc[p] = "r_adv" /\ temp[p] = count[p]) =>
         Offset(start) = (Offset(start - moved[p]) + count[p]) % scull_fifo_size

\* the module is loaded and no call was made yet
JustLoaded == mod = "live" /\ calls = 0

\* C16: after a successful scull_init_module both cursors are at the first
\* byte of the allocated storage, queue_empty and queue_full have count 0
\* and lock has count 1.
C16_InitialState ==
  JustLoaded =>
    /\ heap = "allocated"
    /\ start = fifo_array
    /\ end = fifo_array
    /\ sema["queue_empty"].count = 0
    /\ sema["queue_full"].count = 0
    /\ sema["lock"].count = 1

\* the module was loaded from the unloaded state and is ready for calls
C16_Witness ==
  /\ JustLoaded
  /\ fifo_array # NULL
  /\ region
  /\ cdev

\* C17: the count bytes copied by scull_write from end on, and by scull_read
\* from start on, all lie inside the allocated storage.
C17_CopiesInsideStorage ==
  [][\A p \in Procs :
       /\ (pc[p] = "w_copy" /\ pc'[p] = "w_adv") =>
            (end .. (end + count[p] - 1)) \subseteq Alloc
       /\ (pc[p] = "r_copy" /\ pc'[p] = "r_adv") =>
            (start .. (start + count[p] - 1)) \subseteq Alloc]_vars

\* C18: after a successful scull_init_module orig is the first byte of the
\* allocated storage.
C18_WrapBase == mod = "live" => orig = fifo_array

\* C19: the producer and the consumer are never both asleep on their
\* flow-control semaphores, where no step is left that wakes either.
C19_DeadlockFree ==
  ~(pc[Producer] = "w_qf_w" /\ pc[Consumer] = "r_qe_w")

====
